---- MODULE Spec2Model ----
(***************************************************************************)
(* Temporal event store and query interpreter of the home threat           *)
(* detection pipeline (app/temporal/vector_store.py and                    *)
(* app/temporal/query_agent.py).                                           *)
(*                                                                         *)
(* Time is counted in ticks; TicksPerMs ticks make one millisecond, so a   *)
(* float timestamp of the program is the rational ticks / (1000 *          *)
(* TicksPerMs) seconds.  Python strings are TLA+ strings, Python dicts     *)
(* are functions whose domain is the set of keys that are present, and     *)
(* Python's None is the value None below.                                  *)
(***************************************************************************)
EXTENDS Integers, Sequences, FiniteSets, TLC

(***************************************************************************)
(* store      the vectors held by the backend index                        *)
(* last       the operation that ran last: its arguments, the calls it     *)
(*            made and what it returned or raised                          *)
(* sessionOf  history: for every id in the store, the session_id argument  *)
(*            of the latest successful upsert of that id                   *)
(* purged     history: the session ids s for which delete_by_session(s)    *)
(*            completed with no successful upsert with session s since     *)
(* tasks      the calls that run concurrently with one another: for each   *)
(*            its position and its local variables                         *)
(* process    the Python process that runs the pipeline and the query      *)
(*            tools: the pipeline object it holds, and how many times it   *)
(*            has loaded the embedding model and made an index handle      *)
(* manager    the ConnectionManager of the server: active_connections,     *)
(*            the position and the local variables of the broadcast that   *)
(*            is running, and (history) the websockets accepted so far     *)
(***************************************************************************)
VARIABLES store, last, sessionOf, purged, tasks, process, manager

vars == <<store, last, sessionOf, purged, tasks, process, manager>>

(***************************************************************************)
(* The process before it has built anything, and the manager the server    *)
(* module builds when it is loaded.                                        *)
(***************************************************************************)
NoProcess == [pipeline |-> "None", models |-> 0, handles |-> 0]

NoManager ==
    [active_connections |-> {}, accepted |-> {}, broadcast |-> [pc |-> "idle"]]

(***************************************************************************)
(* Time.  A timestamp is a float number of seconds; the model counts it in *)
(* ticks of half a millisecond, so that two timestamps can differ by less  *)
(* than the millisecond that int(timestamp * 1000) keeps, and the largest  *)
(* time of the program, 999999.0 seconds, is still a 32-bit integer.       *)
(***************************************************************************)
TicksPerMs == 2

(***************************************************************************)
(* Bounds of the model.                                                    *)
(***************************************************************************)
MaxRecords == 2
MaxTopK == 2
Dimension == 2

TicksPerSecond == 1000 * TicksPerMs

\* Python's None where a string is expected, and where a number is expected
\* (the camera ids and times of the model are never negative).
None == "None"
NoneNum == -1

Cameras == {1, 2}
Frames == {0, 1}
Ticks == {0, 1}
TopKs == 1..MaxTopK

Min(a, b) == IF a <= b THEN a ELSE b
Max(a, b) == IF a >= b THEN a ELSE b

(***************************************************************************)
(* Python helpers: dict.get, str.join, slicing s[:n].                      *)
(***************************************************************************)
Get(d, k, default) == IF k \in DOMAIN d THEN d[k] ELSE default

RECURSIVE Join(_, _)
Join(parts, sep) ==
    IF Len(parts) = 0 THEN ""
    ELSE IF Len(parts) = 1 THEN parts[1]
    ELSE parts[1] \o sep \o Join(Tail(parts), sep)

\* Mutant: nothing is cut off.
PrefixUncut(s, n) == s

Prefix(s, n) == SubSeq(s, 1, Min(Len(s), n))

Truthy(v) == v # None /\ v # ""

(***************************************************************************)
(* Inputs of upsert_analysis: the analysis dicts a vision agent may        *)
(* produce (any subset of the keys may be missing) and the optional        *)
(* video_path / session_id arguments.                                      *)
(***************************************************************************)
AnalysisFull ==
    [threat_level |-> "critical", weapon_type |-> "gun", people_count |-> 2,
     unfamiliar_face |-> TRUE, threats_detected |-> <<"weapon", "intruder">>,
     description |-> "armed person at the door"]

AnalysisSparse == [threat_level |-> "low", people_count |-> 1]

AnalysisEmpty == <<>>

Analyses == {AnalysisFull, AnalysisSparse, AnalysisEmpty}

VideoPaths == {None, "videos/cam.mp4"}
SessionIds == {None, "", "s1", "s2"}

(***************************************************************************)
(* _create_embedding: the sentence embedder is an external deterministic   *)
(* function of the text; it is modelled by a vector of Dimension           *)
(* components computed from the text.                                      *)
(***************************************************************************)
_create_embedding(text) == [i \in 1..Dimension |-> Len(text) % (2 * i + 1)]

(***************************************************************************)
(* _create_searchable_text                                                 *)
(***************************************************************************)
_create_searchable_text(analysis) ==
    LET threat_level == Get(analysis, "threat_level", "none")
        threats == Get(analysis, "threats_detected", <<>>)
        weapon_type == Get(analysis, "weapon_type", "none")
        people_count == Get(analysis, "people_count", 0)
        description == Get(analysis, "description", "")
        parts ==
            <<"Threat level: " \o threat_level>>
            \o (IF Len(threats) > 0
                THEN <<"Threats: " \o Join(threats, ", ")>> ELSE <<>>)
            \o (IF weapon_type # "none"
                THEN <<"Weapon detected: " \o weapon_type>> ELSE <<>>)
            \o <<"People count: " \o ToString(people_count)>>
            \o (IF Get(analysis, "unfamiliar_face", FALSE)
                THEN <<"Unknown person detected">> ELSE <<>>)
            \o (IF description # ""
                THEN <<"Scene: " \o description>> ELSE <<>>)
    IN  Join(parts, " | ")

\* Mutant: the id keeps the whole seconds of the timestamp.
MillisOfWholeSeconds(timestamp) == (timestamp \div TicksPerSecond) * 1000

(***************************************************************************)
(* The record id f"cam{camera_id}_f{frame_number}_{int(timestamp*1000)}".  *)
(* int() truncates the millisecond count toward zero.  The formatted       *)
(* string is kept as the triple of the three numbers it prints: the        *)
(* separators "cam", "_f", "_" make the string determine the triple.       *)
(***************************************************************************)
Millis(timestamp) == timestamp \div TicksPerMs

RecordId(camera_id, frame_number, timestamp) ==
    <<camera_id, frame_number, Millis(timestamp)>>

(***************************************************************************)
(* The metadata dict and the vector built by upsert_analysis.              *)
(* ingestion_time (the wall clock, audit only) is not part of the model.   *)
(***************************************************************************)
MetaLimit == 1000

\* Mutant: the optional field is stored whatever its value.
OptionalFieldAlways(key, value) == [k \in {key} |-> value]

OptionalField(key, value) ==
    IF Truthy(value) THEN [k \in {key} |-> value] ELSE <<>>

Metadata(camera_id, timestamp, frame_number, analysis, video_path, session_id) ==
    [camera_id |-> camera_id,
     timestamp |-> timestamp,
     frame_number |-> frame_number,
     threat_level |-> Get(analysis, "threat_level", "none"),
     weapon_type |-> Get(analysis, "weapon_type", "none"),
     people_count |-> Get(analysis, "people_count", 0),
     unfamiliar_face |-> Get(analysis, "unfamiliar_face", FALSE),
     threats |-> Join(Get(analysis, "threats_detected", <<>>), ","),
     description |-> Prefix(Get(analysis, "description", ""), MetaLimit),
     searchable_text |-> Prefix(_create_searchable_text(analysis), MetaLimit)]
    @@ OptionalField("video_path", video_path)
    @@ OptionalField("session_id", session_id)

Vector(camera_id, timestamp, frame_number, analysis, video_path, session_id) ==
    [id |-> RecordId(camera_id, frame_number, timestamp),
     values |-> _create_embedding(_create_searchable_text(analysis)),
     metadata |-> Metadata(camera_id, timestamp, frame_number, analysis,
                           video_path, session_id)]

(***************************************************************************)
(* The backend index (Pinecone) as the set of vectors it holds.            *)
(* index.upsert replaces the vector that has the same id, if any.          *)
(***************************************************************************)
\* Mutant: the vector is added and a vector with its id stays.
IndexUpsertAppend(index, vector) == index \cup {vector}

\* Mutant: an existing vector is updated, its metadata keys that the new
\* metadata lacks being kept.
IndexUpsertMerge(index, vector) ==
    {v \in index : v.id # vector.id}
    \cup {[vector EXCEPT !.metadata = vector.metadata @@ old.metadata] :
             old \in {v \in index : v.id = vector.id}}
    \cup (IF \E v \in index : v.id = vector.id THEN {} ELSE {vector})

IndexUpsert(index, vector) ==
    {v \in index : v.id # vector.id} \cup {vector}

(***************************************************************************)
(* index.delete(filter={"session_id": {"$eq": session_id}}): a vector      *)
(* matches only if its metadata has the key and the value is equal.        *)
(***************************************************************************)
\* Mutant: the filter matches every vector that carries a session id.
SessionFilterAnySession(v, session_id) ==
    "session_id" \in DOMAIN v.metadata

SessionFilter(v, session_id) ==
    "session_id" \in DOMAIN v.metadata /\ v.metadata.session_id = session_id

\* Mutant: the backend ignores a delete by metadata filter.
IndexDeleteIgnored(index, session_id) == index

IndexDelete(index, session_id) ==
    {v \in index : ~SessionFilter(v, session_id)}

(***************************************************************************)
(* index.query(vector, filter, top_k): the top_k vectors passing the       *)
(* filter (the set filtered) that are most similar to the query vector,    *)
(* most similar first.                                                     *)
(* Vectors of equal score come in an order, and are cut off at top_k,      *)
(* as the backend pleases.  The result is the set of match lists the       *)
(* backend may return.                                                     *)
(***************************************************************************)
RECURSIVE Dot(_, _)
Dot(u, v) == IF Len(u) = 0 THEN 0 ELSE Head(u) * Head(v) + Dot(Tail(u), Tail(v))

Similarity(u, v) == Dot(u, v)

Match(v, query_vector) ==
    [id |-> v.id, score |-> Similarity(query_vector, v.values),
     metadata |-> v.metadata]

\* Mutant: the backend ignores top_k.
IndexQueryUnbounded(filtered, query_vector, top_k) ==
    LET passing == {Match(v, query_vector) : v \in filtered}
        n == Cardinality(passing)
    IN  {m \in [1..n -> passing] :
            \A i, j \in 1..n : i < j => m[i] # m[j] /\ m[i].score >= m[j].score}

IndexQuery(filtered, query_vector, top_k) ==
    LET passing == {Match(v, query_vector) : v \in filtered}
        n == Min(top_k, Cardinality(passing))
    IN  {m \in [1..n -> passing] :
            /\ \A i, j \in 1..n : i < j => m[i] # m[j] /\ m[i].score >= m[j].score
            /\ \A x \in passing :
                  (\A i \in 1..n : m[i] # x) => \A i \in 1..n : m[i].score >= x.score}

ZeroVector == [i \in 1..Dimension |-> 0]

(***************************************************************************)
(* list.sort(key=lambda x: x.get('timestamp', 0)): a stable ascending      *)
(* sort, written as the insertion of each element behind the elements      *)
(* whose key is not greater.                                               *)
(***************************************************************************)
TimestampKey(x) == Get(x, "timestamp", 0)

RECURSIVE InsertByKey(_, _)
InsertByKey(sorted, x) ==
    IF Len(sorted) = 0 THEN <<x>>
    ELSE IF TimestampKey(sorted[Len(sorted)]) <= TimestampKey(x)
         THEN Append(sorted, x)
         ELSE Append(InsertByKey(SubSeq(sorted, 1, Len(sorted) - 1), x),
                     sorted[Len(sorted)])

RECURSIVE SortByTimestamp(_)
SortByTimestamp(list) ==
    IF Len(list) = 0 THEN <<>>
    ELSE InsertByKey(SortByTimestamp(SubSeq(list, 1, Len(list) - 1)),
                     list[Len(list)])

\* Mutant: records of every camera pass.
TimeRangeFilterAnyCamera(v, camera_id, start_time, end_time) ==
    /\ v.metadata.timestamp >= start_time
    /\ v.metadata.timestamp <= end_time

(***************************************************************************)
(* query_by_time_range: the lists it may return, each with the matches     *)
(* of the backend it was made from.                                        *)
(***************************************************************************)
\* Mutant: the upper end of the window is exclusive ($lt for $lte).
TimeRangeFilterExclusiveEnd(v, camera_id, start_time, end_time) ==
    /\ v.metadata.camera_id = camera_id
    /\ v.metadata.timestamp >= start_time
    /\ v.metadata.timestamp < end_time

TimeRangeFilter(v, camera_id, start_time, end_time) ==
    /\ v.metadata.camera_id = camera_id
    /\ v.metadata.timestamp >= start_time
    /\ v.metadata.timestamp <= end_time

RangeInsight(match) == match.metadata @@ [id |-> match.id, score |-> match.score]

query_by_time_range(index, camera_id, start_time, end_time, top_k) ==
    LET filtered == {v \in index :
                        TimeRangeFilter(v, camera_id, start_time, end_time)}
    IN  {[matches |-> m,
          insights |-> SortByTimestamp([i \in DOMAIN m |-> RangeInsight(m[i])])] :
            m \in IndexQuery(filtered, ZeroVector, top_k)}

(***************************************************************************)
(* query_by_semantic_search: the lists it may return.  camera_id,          *)
(* start_time and end_time are NoneNum when not given.                     *)
(***************************************************************************)
\* Mutant: the camera filter is not sent to the backend.
SemanticFilterAnyCamera(v, camera_id, start_time, end_time) ==
    (start_time # NoneNum /\ end_time # NoneNum) =>
        /\ v.metadata.timestamp >= start_time
        /\ v.metadata.timestamp <= end_time

\* Mutant: each time bound that is given is sent to the backend.
SemanticFilterEachBound(v, camera_id, start_time, end_time) ==
    /\ camera_id # NoneNum => v.metadata.camera_id = camera_id
    /\ start_time # NoneNum => v.metadata.timestamp >= start_time
    /\ end_time # NoneNum => v.metadata.timestamp <= end_time

SemanticFilter(v, camera_id, start_time, end_time) ==
    /\ camera_id # NoneNum => v.metadata.camera_id = camera_id
    /\ (start_time # NoneNum /\ end_time # NoneNum) =>
          /\ v.metadata.timestamp >= start_time
          /\ v.metadata.timestamp <= end_time

SemanticInsight(match) ==
    match.metadata @@ [id |-> match.id, relevance_score |-> match.score]

query_by_semantic_search(index, query_text, camera_id, start_time, end_time, top_k) ==
    LET filtered == {v \in index :
                        SemanticFilter(v, camera_id, start_time, end_time)}
    IN  {[i \in DOMAIN m |-> SemanticInsight(m[i])] :
            m \in IndexQuery(filtered, _create_embedding(query_text), top_k)}

(***************************************************************************)
(* query_by_threat_level: the lists it may return.                         *)
(***************************************************************************)
ThreatLevelFilter(v, threat_level, camera_id) ==
    /\ v.metadata.threat_level = threat_level
    /\ camera_id # NoneNum => v.metadata.camera_id = camera_id

ThreatInsight(match) == match.metadata @@ [id |-> match.id]

query_by_threat_level(index, threat_level, camera_id, limit) ==
    LET filtered == {v \in index : ThreatLevelFilter(v, threat_level, camera_id)}
    IN  {SortByTimestamp([i \in DOMAIN m |-> ThreatInsight(m[i])]) :
            m \in IndexQuery(filtered, ZeroVector, limit)}

(***************************************************************************)
(* upsert_analysis.  up: the backend accepts the write (otherwise the      *)
(* client raises and nothing is stored).  The model holds at most          *)
(* MaxRecords vectors.                                                     *)
(***************************************************************************)
UpsertAnalysis(camera_id, timestamp, frame_number, analysis, video_path, session_id, up) ==
    LET vector == Vector(camera_id, timestamp, frame_number, analysis,
                         video_path, session_id)
        prior == {v \in store : v.id = vector.id}
    IN  /\ prior # {} \/ Cardinality(store) < MaxRecords
        /\ store' = IF up THEN IndexUpsert(store, vector) ELSE store
        /\ last' = IF up
                   THEN [op |-> "upsert_analysis", outcome |-> "returned",
                         result |-> vector.id,
                         camera_id |-> camera_id, timestamp |-> timestamp,
                         frame_number |-> frame_number, analysis |-> analysis,
                         video_path |-> video_path, session_id |-> session_id,
                         prior |-> prior]
                   ELSE [op |-> "upsert_analysis", outcome |-> "raised"]
        /\ sessionOf' = IF up
                        THEN [i \in DOMAIN sessionOf \cup {vector.id} |->
                                 IF i = vector.id THEN session_id ELSE sessionOf[i]]
                        ELSE sessionOf
        /\ purged' = IF up THEN purged \ {session_id} ELSE purged
        /\ UNCHANGED <<tasks, process, manager>>

(***************************************************************************)
(* delete_by_session                                                       *)
(***************************************************************************)
DeleteBySession(session_id) ==
    /\ store' = IndexDelete(store, session_id)
    /\ last' = [op |-> "delete_by_session", outcome |-> "returned",
                session_id |-> session_id, before |-> store]
    /\ purged' = purged \cup {session_id}
    /\ sessionOf' = [i \in {v.id : v \in store'} |-> sessionOf[i]]
    /\ UNCHANGED <<tasks, process, manager>>

(***************************************************************************)
(* The three queries of the store as operations.                           *)
(***************************************************************************)
QueryByTimeRange(camera_id, start_time, end_time, top_k) ==
    /\ \E r \in query_by_time_range(store, camera_id, start_time,
                                     end_time, top_k) :
          last' = [op |-> "query_by_time_range", outcome |-> "returned",
                   camera_id |-> camera_id, start_time |-> start_time,
                   end_time |-> end_time, top_k |-> top_k,
                   matches |-> [i \in DOMAIN r.matches |-> r.matches[i].id],
                   result |-> r.insights]
    /\ UNCHANGED <<store, sessionOf, purged, tasks, process, manager>>

QueryBySemanticSearch(query_text, camera_id, start_time, end_time, top_k) ==
    /\ \E insights \in query_by_semantic_search(store, query_text, camera_id,
                                                 start_time, end_time, top_k) :
          last' = [op |-> "query_by_semantic_search", outcome |-> "returned",
                   query_text |-> query_text, camera_id |-> camera_id,
                   start_time |-> start_time, end_time |-> end_time,
                   top_k |-> top_k, result |-> insights]
    /\ UNCHANGED <<store, sessionOf, purged, tasks, process, manager>>

QueryByThreatLevel(threat_level, camera_id, limit) ==
    /\ \E insights \in query_by_threat_level(store, threat_level, camera_id, limit) :
          last' = [op |-> "query_by_threat_level", outcome |-> "returned",
                   threat_level |-> threat_level, camera_id |-> camera_id,
                   limit |-> limit, result |-> insights]
    /\ UNCHANGED <<store, sessionOf, purged, tasks, process, manager>>

Init ==
    /\ store = {}
    /\ last = [op |-> "init"]
    /\ sessionOf = <<>>
    /\ purged = {}
    /\ tasks = <<>>
    /\ process = NoProcess
    /\ manager = NoManager

(***************************************************************************)
(* Spec: the store under upserts, deletions and time-range queries, with   *)
(* two cameras, two frames per camera and two ingestion contexts.          *)
(***************************************************************************)
RangeContexts == {<<None, None>>, <<"videos/cam.mp4", "s1">>}

Next ==
    \/ \E c \in Cameras, t \in Ticks, f \in Frames, ctx \in RangeContexts :
          UpsertAnalysis(c, t, f, AnalysisSparse, ctx[1], ctx[2], TRUE)
    \/ DeleteBySession("s1")
    \/ \E c \in Cameras, a \in Ticks, b \in Ticks, k \in TopKs :
          QueryByTimeRange(c, a, b, k)

Spec == Init /\ [][Next]_vars

(***************************************************************************)
(* SpecUpsert: repeated writes of the frames of one camera, with every     *)
(* analysis content and with and without video_path / session_id.          *)
(***************************************************************************)
NextUpsert ==
    \/ \E t \in Ticks, f \in Frames, a \in Analyses, ctx \in RangeContexts,
          up \in BOOLEAN :
          UpsertAnalysis(1, t, f, a, ctx[1], ctx[2], up)
    \/ DeleteBySession("s1")

SpecUpsert == Init /\ [][NextUpsert]_vars

(***************************************************************************)
(* SpecSession: one camera written by ingestion runs with no session id,   *)
(* the empty session id and two named sessions; sessions are deleted and   *)
(* the three queries of the store are asked.                               *)
(***************************************************************************)
FullWindow == <<0, 1>>
SearchTexts == {"intruder at the door"}

NextSession ==
    \/ \E t \in Ticks, f \in Frames, s \in SessionIds :
          UpsertAnalysis(1, t, f, AnalysisSparse, None, s, TRUE)
    \/ \E s \in SessionIds \ {None} : DeleteBySession(s)
    \/ \E k \in TopKs : QueryByTimeRange(1, FullWindow[1], FullWindow[2], k)
    \/ \E q \in SearchTexts, c \in {NoneNum, 1}, k \in TopKs :
          QueryBySemanticSearch(q, c, NoneNum, NoneNum, k)
    \/ \E c \in {NoneNum, 1}, k \in TopKs : QueryByThreatLevel("low", c, k)

SpecSession == Init /\ [][NextSession]_vars

(***************************************************************************)
(* Regular expressions of query_agent.py on Python strings.                *)
(*                                                                         *)
(* A pattern is a sequence of elements:                                    *)
(*    [k |-> "lit", s |-> w]     the literal text w                        *)
(*    [k |-> "ws", min |-> n]    \s+ (n = 1) or \s* (n = 0)                *)
(*    [k |-> "num"]              the group (\d+)                           *)
(*    [k |-> "opt", s |-> w]     w?                                        *)
(* Every \s and \d run of these patterns is followed by an element that    *)
(* cannot begin with a character of the run (or by the end of the          *)
(* pattern), and an optional element only ends a pattern, so the greedy    *)
(* match of each element in turn is the match re finds.                    *)
(***************************************************************************)
Char(s, i) == SubSeq(s, i, i)

IsSpace(ch) == ch \in {" ", "\t", "\n", "\r", "\f"}

IsDigit(ch) == ch \in {"0", "1", "2", "3", "4", "5", "6", "7", "8", "9"}

DigitValue(ch) ==
    CASE ch = "0" -> 0 [] ch = "1" -> 1 [] ch = "2" -> 2 [] ch = "3" -> 3
      [] ch = "4" -> 4 [] ch = "5" -> 5 [] ch = "6" -> 6 [] ch = "7" -> 7
      [] ch = "8" -> 8 [] ch = "9" -> 9

\* int(digits)
RECURSIVE ParseInt(_)
ParseInt(digits) ==
    IF Len(digits) = 0 THEN 0
    ELSE 10 * ParseInt(SubSeq(digits, 1, Len(digits) - 1))
         + DigitValue(Char(digits, Len(digits)))

UpperCase == "ABCDEFGHIJKLMNOPQRSTUVWXYZ"
LowerCase == "abcdefghijklmnopqrstuvwxyz"

LowerChar(ch) ==
    IF \E i \in 1..Len(UpperCase) : Char(UpperCase, i) = ch
    THEN Char(LowerCase, CHOOSE i \in 1..Len(UpperCase) : Char(UpperCase, i) = ch)
    ELSE ch

\* str.lower()
RECURSIVE Lower(_)
Lower(s) == IF Len(s) = 0 THEN "" ELSE LowerChar(Head(s)) \o Lower(Tail(s))

\* The length of the run of spaces (digits = FALSE) or digits (digits = TRUE)
\* of text that starts at pos.
RECURSIVE Run(_, _, _)
Run(text, pos, digits) ==
    IF pos > Len(text) THEN 0
    ELSE IF (IF digits THEN IsDigit(Char(text, pos)) ELSE IsSpace(Char(text, pos)))
         THEN 1 + Run(text, pos + 1, digits)
         ELSE 0

StartsWith(text, pos, w) ==
    pos + Len(w) - 1 <= Len(text) /\ SubSeq(text, pos, pos + Len(w) - 1) = w

NoMatch == [ok |-> FALSE, groups |-> <<>>]

\* The match of elements j.. of the pattern at position pos of the text.
RECURSIVE MatchFrom(_, _, _, _, _)
MatchFrom(pattern, j, text, pos, groups) ==
    IF j > Len(pattern) THEN [ok |-> TRUE, groups |-> groups]
    ELSE LET e == pattern[j]
         IN  CASE e.k = "lit" ->
                    IF StartsWith(text, pos, e.s)
                    THEN MatchFrom(pattern, j + 1, text, pos + Len(e.s), groups)
                    ELSE NoMatch
               [] e.k = "ws" ->
                    IF Run(text, pos, FALSE) >= e.min
                    THEN MatchFrom(pattern, j + 1, text,
                                   pos + Run(text, pos, FALSE), groups)
                    ELSE NoMatch
               [] e.k = "num" ->
                    IF Run(text, pos, TRUE) >= 1
                    THEN MatchFrom(pattern, j + 1, text,
                                   pos + Run(text, pos, TRUE),
                                   Append(groups,
                                          SubSeq(text, pos, pos + Run(text, pos, TRUE) - 1)))
                    ELSE NoMatch
               [] e.k = "opt" ->
                    MatchFrom(pattern, j + 1, text,
                              IF StartsWith(text, pos, e.s) THEN pos + Len(e.s) ELSE pos,
                              groups)

\* The first alternative of the sequence alternatives that matches at pos.
RECURSIVE MatchAlternatives(_, _, _, _)
MatchAlternatives(alternatives, a, text, pos) ==
    IF a > Len(alternatives) THEN NoMatch
    ELSE IF MatchFrom(alternatives[a], 1, text, pos, <<>>).ok
         THEN MatchFrom(alternatives[a], 1, text, pos, <<>>)
         ELSE MatchAlternatives(alternatives, a + 1, text, pos)

\* re.search: the match at the leftmost position that has one.
RECURSIVE SearchFrom(_, _, _)
SearchFrom(alternatives, text, pos) ==
    IF pos > Len(text) + 1 THEN NoMatch
    ELSE IF MatchAlternatives(alternatives, 1, text, pos).ok
         THEN MatchAlternatives(alternatives, 1, text, pos)
         ELSE SearchFrom(alternatives, text, pos + 1)

\* Mutant: re.match in place of re.search.
SearchAnchored(pattern, text) == MatchFrom(pattern, 1, text, 1, <<>>)

Search(pattern, text) == SearchFrom(<<pattern>>, text, 1)

Lit(w) == [k |-> "lit", s |-> w]
Ws1 == [k |-> "ws", min |-> 1]
Ws0 == [k |-> "ws", min |-> 0]
Num == [k |-> "num"]
Opt(w) == [k |-> "opt", s |-> w]

\* r'camera\s*(\d+)|cam\s*(\d+)|video\s*(\d+)'
camera_pattern ==
    <<  <<Lit("camera"), Ws0, Num>>, <<Lit("cam"), Ws0, Num>>, <<Lit("video"), Ws0, Num>>  >>

\* r'between\s+(\d+)\s+and\s+(\d+)\s+seconds?'
between_pattern ==
    <<Lit("between"), Ws1, Num, Ws1, Lit("and"), Ws1, Num, Ws1, Lit("second"), Opt("s")>>

\* r'first\s+(\d+)\s+seconds?'
first_pattern == <<Lit("first"), Ws1, Num, Ws1, Lit("second"), Opt("s")>>

\* r'last\s+(\d+)\s+seconds?'
last_pattern == <<Lit("last"), Ws1, Num, Ws1, Lit("second"), Opt("s")>>

\* r'from\s+(\d+)\s+to\s+(\d+)'
from_to_pattern == <<Lit("from"), Ws1, Num, Ws1, Lit("to"), Ws1, Num>>

\* r'at\s+(\d+)\s+seconds?'
at_pattern == <<Lit("at"), Ws1, Num, Ws1, Lit("second"), Opt("s")>>

\* Mutant: the M:SS pattern asks for the word "from".
time_format_pattern_from ==
    <<Lit("from"), Ws1, Num, Lit(":"), Num, Ws1, Lit("to"), Ws1, Num, Lit(":"), Num>>

\* r'(\d+):(\d+)\s+to\s+(\d+):(\d+)'
time_format_pattern ==
    <<Num, Lit(":"), Num, Ws1, Lit("to"), Ws1, Num, Lit(":"), Num>>

\* float(n) seconds, n an int, in ticks.
Seconds(n) == n * TicksPerSecond

AssumedDuration == 60
HalfWindowTenths == 25

\* Mutant: the half of the window is 2 seconds.
HalfWindowWhole == 2 * TicksPerSecond

\* 2.5 seconds in ticks.
HalfWindow == (HalfWindowTenths * TicksPerSecond) \div 10

DefaultCamera == 1

\* The camera id parse_time_query extracts (1 when there is none).
CameraOf(query_lower) ==
    LET camera_match == SearchFrom(camera_pattern, query_lower, 1)
    IN  IF camera_match.ok THEN ParseInt(camera_match.groups[1]) ELSE DefaultCamera

TimeParams(start_time, end_time, camera_id) ==
    [start_time |-> start_time, end_time |-> end_time, camera_id |-> camera_id]

\* The return value None of parse_time_query: the only falsy one.
NoTimeParams == <<>>

(***************************************************************************)
(* parse_time_query                                                        *)
(***************************************************************************)
\* Mutant: the M:SS pattern is tried first and "at" before "between".
parse_time_query_reordered(query) ==
    LET query_lower == Lower(query)
        camera_id == CameraOf(query_lower)
        between == Search(between_pattern, query_lower)
        first == Search(first_pattern, query_lower)
        lastm == Search(last_pattern, query_lower)
        from_to == Search(from_to_pattern, query_lower)
        at == Search(at_pattern, query_lower)
        time_format == Search(time_format_pattern, query_lower)
    IN  IF time_format.ok THEN
            TimeParams(Seconds(ParseInt(time_format.groups[1]) * 60
                               + ParseInt(time_format.groups[2])),
                       Seconds(ParseInt(time_format.groups[3]) * 60
                               + ParseInt(time_format.groups[4])),
                       camera_id)
        ELSE IF at.ok THEN
            TimeParams(Max(0, Seconds(ParseInt(at.groups[1])) - HalfWindow),
                       Seconds(ParseInt(at.groups[1])) + HalfWindow, camera_id)
        ELSE IF between.ok THEN
            TimeParams(Seconds(ParseInt(between.groups[1])),
                       Seconds(ParseInt(between.groups[2])), camera_id)
        ELSE IF first.ok THEN
            TimeParams(0, Seconds(ParseInt(first.groups[1])), camera_id)
        ELSE IF lastm.ok THEN
            TimeParams(Max(0, Seconds(AssumedDuration) - Seconds(ParseInt(lastm.groups[1]))),
                       Seconds(AssumedDuration), camera_id)
        ELSE IF from_to.ok THEN
            TimeParams(Seconds(ParseInt(from_to.groups[1])),
                       Seconds(ParseInt(from_to.groups[2])), camera_id)
        ELSE NoTimeParams

parse_time_query(query) ==
    LET query_lower == Lower(query)
        camera_id == CameraOf(query_lower)
        between == Search(between_pattern, query_lower)
        first == Search(first_pattern, query_lower)
        lastm == Search(last_pattern, query_lower)
        from_to == Search(from_to_pattern, query_lower)
        at == Search(at_pattern, query_lower)
        time_format == Search(time_format_pattern, query_lower)
    IN  IF between.ok THEN
            TimeParams(Seconds(ParseInt(between.groups[1])),
                       Seconds(ParseInt(between.groups[2])), camera_id)
        ELSE IF first.ok THEN
            TimeParams(0, Seconds(ParseInt(first.groups[1])), camera_id)
        ELSE IF lastm.ok THEN
            TimeParams(Max(0, Seconds(AssumedDuration) - Seconds(ParseInt(lastm.groups[1]))),
                       Seconds(AssumedDuration), camera_id)
        ELSE IF from_to.ok THEN
            TimeParams(Seconds(ParseInt(from_to.groups[1])),
                       Seconds(ParseInt(from_to.groups[2])), camera_id)
        ELSE IF at.ok THEN
            TimeParams(Max(0, Seconds(ParseInt(at.groups[1])) - HalfWindow),
                       Seconds(ParseInt(at.groups[1])) + HalfWindow, camera_id)
        ELSE IF time_format.ok THEN
            TimeParams(Seconds(ParseInt(time_format.groups[1]) * 60
                               + ParseInt(time_format.groups[2])),
                       Seconds(ParseInt(time_format.groups[3]) * 60
                               + ParseInt(time_format.groups[4])),
                       camera_id)
        ELSE NoTimeParams

(***************************************************************************)
(* The query texts of the model: up to MaxPhrases phrases of the table     *)
(* below, joined by single spaces.  phrase is the text; the other fields   *)
(* say what a reader finds in it: kind is the number of the time pattern   *)
(* of section 4.3 the phrase is an instance of (0: none), from and to are  *)
(* the window in tenths of a second that the pattern gives, camera is the  *)
(* camera the phrase refers to (0: none).                                  *)
(***************************************************************************)
MaxPhrases == 2

Phrase(phrase, kind, from, to, camera) ==
    [phrase |-> phrase, kind |-> kind, from |-> from, to |-> to, camera |-> camera]

PhraseTable ==
    << Phrase("what happened", 0, 0, 0, 0),
       Phrase("when was the weapon detected", 0, 0, 0, 0),
       Phrase("in camera 2", 0, 0, 0, 2),
       Phrase("on Cam1", 0, 0, 0, 1),
       Phrase("Between 15 and 20 seconds", 1, 150, 200, 0),
       Phrase("between 20   and 15 second", 1, 200, 150, 0),
       Phrase("first 30 seconds", 2, 0, 300, 0),
       Phrase("last 10 seconds", 3, 500, 600, 0),
       Phrase("last 90 seconds", 3, 0, 600, 0),
       Phrase("from 5 to 9", 4, 50, 90, 0),
       Phrase("from 30 to 10", 4, 300, 100, 0),
       Phrase("at 7 seconds", 5, 45, 95, 0),
       Phrase("at 1 second", 5, 0, 35, 0),
       Phrase("1:15 to 1:45", 6, 750, 1050, 0),
       Phrase("from 2:00 to 1:00", 6, 1200, 600, 0),
       Phrase("at 0 seconds", 5, 0, 25, 0),
       Phrase("at 3 seconds", 5, 5, 55, 0),
       Phrase("0:59 to 12:05", 6, 590, 7250, 0) >>

PhraseLists ==
    UNION {[1..n -> 1..Len(PhraseTable)] : n \in 0..MaxPhrases}

TextOf(phrases) == Join([i \in DOMAIN phrases |-> PhraseTable[phrases[i]].phrase], " ")

(***************************************************************************)
(* SpecParse: parse_time_query applied to each query text.  The function   *)
(* reads nothing but its argument, so a behaviour is one text and its      *)
(* parse.                                                                  *)
(***************************************************************************)
InitParse ==
    /\ store = {}
    /\ last \in {[op |-> "text", phrases |-> phrases, query |-> TextOf(phrases)] :
                    phrases \in PhraseLists}
    /\ sessionOf = <<>>
    /\ purged = {}
    /\ tasks = <<>>
    /\ process = NoProcess
    /\ manager = NoManager

ParseTimeQuery ==
    /\ last.op = "text"
    /\ last' = [op |-> "parse_time_query", phrases |-> last.phrases,
                query |-> last.query,
                outcome |-> "returned",
                result |-> parse_time_query(last.query)]
    /\ UNCHANGED <<store, sessionOf, purged, tasks, process, manager>>

NextParse == ParseTimeQuery

SpecParse == InitParse /\ [][NextParse]_vars

(***************************************************************************)
(* query_temporal_events and get_threat_timeline.  Each call constructs a  *)
(* TemporalVectorStore of its own and makes one store query.  fault is     *)
(* what goes wrong during the call: nothing, PINECONE_API_KEY is not set   *)
(* (the constructor raises ValueError), the backend is unreachable when    *)
(* the constructor lists the indexes, or the backend query fails.  Neither *)
(* function catches an exception.                                          *)
(***************************************************************************)
Faults == {"none", "no_api_key", "list_indexes", "query"}

Constructed(fault) == fault \notin {"no_api_key", "list_indexes"}

ConstructionError(fault) == IF fault = "no_api_key" THEN "ValueError" ELSE "Exception"

\* TemporalVectorStore(): the process after the constructor has run, or has
\* raised.  The key is looked at first; then the embedding model is loaded;
\* then the indexes are listed and the index handle is made.
MaxLoads == 2

CanConstruct == process.models < MaxLoads

TemporalVectorStore(fault) ==
    IF fault = "no_api_key" THEN process
    ELSE [process EXCEPT !.models = @ + 1,
                         !.handles = IF Constructed(fault) THEN @ + 1 ELSE @]

RangeTopK == 20
SemanticTopK == 10
TimelineTopK == 100
TimelineEndSeconds == 999999

\* f"{t:.1f}" of a time t
Format1f(t) ==
    LET tenths == (t * 10 + TicksPerSecond \div 2) \div TicksPerSecond
    IN  ToString(tenths \div 10) \o "." \o ToString(tenths % 10)

threat_levels == [none |-> 0, low |-> 1, medium |-> 2, high |-> 3, critical |-> 4]

\* The loop over insights[i..] that keeps the maximum in max_level.
RECURSIVE MaxThreatFrom(_, _, _)
MaxThreatFrom(insights, i, max_level) ==
    IF i > Len(insights) THEN max_level
    ELSE LET threat_level == Get(insights[i], "threat_level", "none")
         IN  MaxThreatFrom(insights, i + 1,
                 IF Get(threat_levels, threat_level, 0) > Get(threat_levels, max_level, 0)
                 THEN threat_level
                 ELSE max_level)

max_threat_level(insights) == MaxThreatFrom(insights, 1, "none")

LevelsIn(insights) == {Get(insights[i], "threat_level", "none") : i \in DOMAIN insights}

threat_counts(insights) ==
    [level \in LevelsIn(insights) |->
        Cardinality({i \in DOMAIN insights : Get(insights[i], "threat_level", "none") = level})]

weapon_detected(insights) ==
    \E i \in DOMAIN insights : Get(insights[i], "weapon_type", "none") # "none"

TimeRangeText(time_params) ==
    Format1f(time_params.start_time) \o "s - " \o Format1f(time_params.end_time) \o "s"

\* Mutant: an empty result is reported as an error.
TimeRangeResponseErrorOnEmpty(time_params, insights) ==
    IF insights = <<>>
    THEN [status |-> "error", message |-> "No events found", events |-> <<>>,
          summary |-> [event_count |-> 0]]
    ELSE [status |-> "success", events |-> insights,
          summary |-> [event_count |-> Len(insights)]]

\* The response of the time-based branch.
TimeRangeResponse(time_params, insights) ==
    IF insights = <<>>
    THEN [status |-> "success",
          message |-> "No events found in Camera " \o ToString(time_params.camera_id)
                      \o " between " \o Format1f(time_params.start_time)
                      \o "s and " \o Format1f(time_params.end_time) \o "s",
          events |-> <<>>,
          summary |-> [time_range |-> TimeRangeText(time_params),
                       camera_id |-> time_params.camera_id,
                       event_count |-> 0]]
    ELSE [status |-> "success",
          message |-> "Found " \o ToString(Len(insights))
                      \o " events in the specified time range",
          events |-> insights,
          summary |-> [time_range |-> TimeRangeText(time_params),
                       camera_id |-> time_params.camera_id,
                       event_count |-> Len(insights),
                       max_threat_level |-> max_threat_level(insights),
                       threat_distribution |-> threat_counts(insights),
                       weapon_detected |-> weapon_detected(insights)]]

\* Mutant: the semantic branch takes camera 1 when the text names none.
SemanticCameraOfDefault(query) ==
    LET camera_match == SearchFrom(camera_pattern, Lower(query), 1)
    IN  IF camera_match.ok THEN ParseInt(camera_match.groups[1]) ELSE DefaultCamera

\* The camera id of the semantic branch (None when there is none).
SemanticCameraOf(query) ==
    LET camera_match == SearchFrom(camera_pattern, Lower(query), 1)
    IN  IF camera_match.ok THEN ParseInt(camera_match.groups[1]) ELSE NoneNum

\* The response of the semantic branch.
SemanticResponse(camera_id, insights) ==
    IF insights = <<>>
    THEN [status |-> "success",
          message |-> "No relevant events found for your query",
          events |-> <<>>,
          summary |-> [event_count |-> 0]]
    ELSE [status |-> "success",
          message |-> "Found " \o ToString(Len(insights)) \o " relevant events",
          events |-> insights,
          summary |-> [event_count |-> Len(insights),
                       query_type |-> "semantic_search",
                       camera_id |-> camera_id]]

TimeRangeCall(camera_id, start_time, end_time, top_k) ==
    [method |-> "query_by_time_range", camera_id |-> camera_id,
     start_time |-> start_time, end_time |-> end_time, top_k |-> top_k]

SemanticCall(query_text, camera_id, top_k) ==
    [method |-> "query_by_semantic_search", query_text |-> query_text,
     camera_id |-> camera_id, top_k |-> top_k]

\* The texts that are put to query_temporal_events, and for each of them the
\* time_params and the camera id of the semantic branch that the function
\* computes (computed once for each text).
QueryPhrases == {<<1>>, <<2, 3>>, <<2, 4>>, <<1, 5>>, <<6>>, <<7>>, <<13>>, <<3, 15>>}

QueryTexts == {TextOf(phrases) : phrases \in QueryPhrases}

time_params_of == [query \in QueryTexts |-> parse_time_query(query)]

camera_id_of == [query \in QueryTexts |-> SemanticCameraOf(query)]

\* The store query that query_temporal_events makes for the text.
StoreCall(query) ==
    LET time_params == time_params_of[query]
    IN  IF time_params # NoTimeParams
        THEN TimeRangeCall(time_params.camera_id, time_params.start_time,
                           time_params.end_time, RangeTopK)
        ELSE SemanticCall(query, camera_id_of[query], SemanticTopK)

\* The responses query_temporal_events can return for the text: one for each
\* answer the backend can give.
Responses(index, query) ==
    LET time_params == time_params_of[query]
    IN  IF time_params # NoTimeParams
        THEN {TimeRangeResponse(time_params, r.insights) :
                r \in query_by_time_range(index, time_params.camera_id,
                                          time_params.start_time,
                                          time_params.end_time, RangeTopK)}
        ELSE {SemanticResponse(camera_id_of[query], insights) :
                insights \in query_by_semantic_search(index, query,
                                 camera_id_of[query], NoneNum, NoneNum,
                                 SemanticTopK)}

\* query_temporal_events(query, tool_context); phrases are the phrases of the
\* text.
QueryTemporalEvents(phrases, fault) ==
    LET query == TextOf(phrases)
        call == [op |-> "query_temporal_events", phrases |-> phrases,
                 query |-> query, fault |-> fault]
    IN  /\ \/ /\ ~Constructed(fault)
              /\ last' = call @@ [outcome |-> "raised",
                                  error |-> ConstructionError(fault),
                                  calls |-> <<>>]
           \/ /\ fault = "query"
              /\ last' = call @@ [outcome |-> "raised", error |-> "Exception",
                                  calls |-> <<StoreCall(query)>>]
           \/ /\ fault = "none"
              /\ \E response \in Responses(store, query) :
                    last' = call @@ [outcome |-> "returned",
                                     calls |-> <<StoreCall(query)>>,
                                     result |-> response]
        /\ CanConstruct
        /\ process' = TemporalVectorStore(fault)
        /\ UNCHANGED <<store, sessionOf, purged, tasks, manager>>

\* The grouping loop of get_threat_timeline.
by_threat(insights) ==
    [level \in LevelsIn(insights) |->
        SelectSeq(insights, LAMBDA insight : Get(insight, "threat_level", "none") = level)]

TimelineResponse(camera_id, insights) ==
    [status |-> "success",
     camera_id |-> camera_id,
     total_events |-> Len(insights),
     timeline |-> insights,
     by_threat_level |-> by_threat(insights),
     summary |-> [critical |-> Len(Get(by_threat(insights), "critical", <<>>)),
                  high |-> Len(Get(by_threat(insights), "high", <<>>)),
                  medium |-> Len(Get(by_threat(insights), "medium", <<>>)),
                  low |-> Len(Get(by_threat(insights), "low", <<>>)),
                  none |-> Len(Get(by_threat(insights), "none", <<>>))]]

TimelineCall(camera_id) ==
    TimeRangeCall(camera_id, 0, Seconds(TimelineEndSeconds), TimelineTopK)

\* get_threat_timeline(camera_id, tool_context)
GetThreatTimeline(camera_id, fault) ==
    LET call == [op |-> "get_threat_timeline", camera_id |-> camera_id, fault |-> fault]
    IN  /\ \/ /\ ~Constructed(fault)
              /\ last' = call @@ [outcome |-> "raised",
                                  error |-> ConstructionError(fault),
                                  calls |-> <<>>]
           \/ /\ fault = "query"
              /\ last' = call @@ [outcome |-> "raised", error |-> "Exception",
                                  calls |-> <<TimelineCall(camera_id)>>]
           \/ /\ fault = "none"
              /\ \E r \in query_by_time_range(store, camera_id, 0,
                                              Seconds(TimelineEndSeconds), TimelineTopK) :
                    last' = call @@ [outcome |-> "returned",
                                     calls |-> <<TimelineCall(camera_id)>>,
                                     result |-> TimelineResponse(camera_id, r.insights)]
        /\ CanConstruct
        /\ process' = TemporalVectorStore(fault)
        /\ UNCHANGED <<store, sessionOf, purged, tasks, manager>>

(***************************************************************************)
(* SpecQuery: frames of camera 1, taken every five seconds, are stored     *)
(* with analyses of every threat level (and one level, "unknown", that is  *)
(* not of the enumeration: the analysis is the output of a language model  *)
(* and threat_level is a str), and queried through the two tools.          *)
(***************************************************************************)
FrameInterval == 5

QueryFrames == {2, 3}

LevelAnalyses ==
    {AnalysisEmpty, [threat_level |-> "none"], AnalysisSparse, [threat_level |-> "medium"],
     [threat_level |-> "high", weapon_type |-> "knife"], AnalysisFull,
     [threat_level |-> "unknown"]}

NextQuery ==
    \/ \E frame_number \in QueryFrames, analysis \in LevelAnalyses :
          UpsertAnalysis(1, Seconds(FrameInterval * frame_number), frame_number, analysis, None, None, TRUE)
    \/ \E phrases \in QueryPhrases, fault \in Faults :
          QueryTemporalEvents(phrases, fault)
    \/ \E camera_id \in Cameras, fault \in Faults :
          GetThreatTimeline(camera_id, fault)
    \/ \E camera_id \in Cameras :
          QueryByTimeRange(camera_id, Seconds(15), Seconds(20), RangeTopK)

SpecQuery == Init /\ [][NextQuery]_vars

(***************************************************************************)
(* _store_camera_insights: the frame analyses of one video are upserted in *)
(* order.  The function has no await, so a call is one step.  failing is   *)
(* the set of positions of the batch whose upsert raises.                  *)
(***************************************************************************)
MaxBatch == 2

\* The value of frame_analysis.get('threat_level').upper() in the log line
\* of a stored frame: it raises AttributeError when the key is missing.
LogLineRaises(frame_analysis) ==
    /\ Get(frame_analysis, "threat_level", None) \notin {"none", "low"}
    /\ "threat_level" \notin DOMAIN frame_analysis

\* The loop over frame_analyses[i..]; acc holds the index, the positions for
\* which upsert_analysis was called and those for which it returned, and the
\* two counters.
RECURSIVE StoreFrames(_, _, _, _, _, _, _)
StoreFrames(acc, i, camera_id, frame_analyses, video_path, session_id, failing) ==
    IF i > Len(frame_analyses) THEN acc
    ELSE LET frame_analysis == frame_analyses[i]
             vector == Vector(camera_id, Get(frame_analysis, "timestamp", 0),
                              Get(frame_analysis, "frame_number", 0),
                              frame_analysis, video_path, session_id)
             next == IF i \in failing
                     THEN [acc EXCEPT !.attempts = Append(@, i),
                                      !.failed_count = @ + 1]
                     ELSE [index |-> IndexUpsert(acc.index, vector),
                           attempts |-> Append(acc.attempts, i),
                           stored |-> acc.stored \cup {i},
                           stored_count |-> acc.stored_count + 1,
                           failed_count |-> acc.failed_count
                                            + (IF LogLineRaises(frame_analysis) THEN 1 ELSE 0)]
         IN  StoreFrames(next, i + 1, camera_id, frame_analyses, video_path,
                         session_id, failing)

\* _store_camera_insights(camera_id, analysis, video_path, session_id), where
\* frame_analyses is analysis.get('frame_analyses', []).  The function
\* returns None; the two counters go to the log.
StoreCameraInsights(camera_id, frame_analyses, video_path, session_id, failing) ==
    LET done == StoreFrames([index |-> store, attempts |-> <<>>, stored |-> {},
                             stored_count |-> 0, failed_count |-> 0],
                            1, camera_id, frame_analyses, video_path, session_id, failing)
        ids == {RecordId(camera_id, Get(frame_analyses[i], "frame_number", 0),
                         Get(frame_analyses[i], "timestamp", 0)) : i \in done.stored}
    IN  /\ Cardinality(done.index) <= MaxRecords
        /\ store' = done.index
        /\ last' = [op |-> "_store_camera_insights", outcome |-> "returned",
                    result |-> None,
                    camera_id |-> camera_id, frame_analyses |-> frame_analyses,
                    video_path |-> video_path, session_id |-> session_id,
                    failing |-> failing,
                    attempts |-> done.attempts, stored |-> done.stored,
                    stored_count |-> done.stored_count,
                    failed_count |-> done.failed_count,
                    log |-> <<ToString(done.stored_count) \o "/"
                                \o ToString(Len(frame_analyses)) \o " frames stored">>
                            \o (IF done.failed_count > 0
                                THEN <<ToString(done.failed_count) \o " frames failed to store">>
                                ELSE <<>>)]
        /\ sessionOf' = [i \in DOMAIN sessionOf \cup ids |->
                            IF i \in ids THEN session_id ELSE sessionOf[i]]
        /\ purged' = IF ids = {} THEN purged ELSE purged \ {session_id}
        /\ UNCHANGED <<tasks, process, manager>>

(***************************************************************************)
(* SpecIngest: videos are ingested in one session, which is deleted.  The  *)
(* frames of a video are numbered in order and five seconds apart; the     *)
(* analysis of a frame is what analyze_frame returned, which is the empty  *)
(* dict when the vision agent left no result.                              *)
(***************************************************************************)
IngestAnalyses == {AnalysisEmpty, AnalysisSparse, AnalysisFull}

FrameAnalysis(analysis, frame_number) ==
    analysis @@ [frame_number |-> frame_number,
                 timestamp |-> Seconds(FrameInterval * frame_number)]

Batches ==
    {[i \in DOMAIN analyses |-> FrameAnalysis(analyses[i], i - 1)] :
        analyses \in UNION {[1..n -> IngestAnalyses] : n \in 0..MaxBatch}}

NextIngest ==
    \/ \E frame_analyses \in Batches :
          \E failing \in SUBSET DOMAIN frame_analyses :
              StoreCameraInsights(1, frame_analyses, "videos/cam.mp4", "s1", failing)
    \/ DeleteBySession("s1")

SpecIngest == Init /\ [][NextIngest]_vars

(***************************************************************************)
(* SpecTimeline: frames of two cameras are stored, one of them five        *)
(* seconds past the end of the timeline's window, and the timeline of a    *)
(* camera is asked for.                                                    *)
(***************************************************************************)
TimelineFrames == {3, (TimelineEndSeconds + 1) \div FrameInterval}

NextTimeline ==
    \/ \E camera_id \in Cameras, frame_number \in TimelineFrames, analysis \in {AnalysisSparse, AnalysisFull} :
          UpsertAnalysis(camera_id, Seconds(FrameInterval * frame_number), frame_number, analysis, None, None, TRUE)
    \/ \E camera_id \in Cameras, fault \in Faults :
          GetThreatTimeline(camera_id, fault)

SpecTimeline == Init /\ [][NextTimeline]_vars

(***************************************************************************)
(* SpecText: frames are stored whose analyses have short and long          *)
(* descriptions: one makes the searchable text exactly MetaLimit           *)
(* characters long, one is itself one character longer than MetaLimit.     *)
(***************************************************************************)
RECURSIVE Repeat(_, _)
Repeat(s, n) ==
    IF n = 0 THEN ""
    ELSE IF n % 2 = 1 THEN s \o Repeat(s, n - 1)
         ELSE LET half == Repeat(s, n \div 2) IN half \o half

LongDescription == Repeat("x", MetaLimit + 1)

AnalysisLong == [threat_level |-> "high", description |-> LongDescription]

BrimDescription ==
    Prefix(LongDescription,
           MetaLimit - Len(_create_searchable_text([threat_level |-> "high", description |-> "."])) + 1)

AnalysisBrim == [threat_level |-> "high", description |-> BrimDescription]

TextAnalyses == {AnalysisEmpty, AnalysisSparse, AnalysisFull, AnalysisBrim, AnalysisLong}

NextText ==
    \E frame_number \in Frames, analysis \in TextAnalyses :
        UpsertAnalysis(1, Seconds(FrameInterval * frame_number), frame_number, analysis, None, None, TRUE)

SpecText == Init /\ [][NextText]_vars

(***************************************************************************)
(* Concurrent calls of upsert_analysis, made by the pipelines of several   *)
(* ingestion sessions on the one index.  A call builds its vector from its *)
(* arguments alone, sends it in one index.upsert request, which the        *)
(* backend applies at some later moment, and returns the id when the       *)
(* backend has answered.  The steps of different calls interleave.         *)
(***************************************************************************)
MaxTasks == 3

Tasks == 1..MaxTasks

\* What the pipeline of the task's session passes: every session has its
\* video and its analyses.
TaskSession(t) == IF t % 2 = 1 THEN "s1" ELSE "s2"

TaskVideo(t) == IF t % 2 = 1 THEN "videos/cam.mp4" ELSE None

TaskAnalysis(t) == IF t % 2 = 1 THEN AnalysisSparse ELSE AnalysisFull

\* The number of index.upsert requests the backend has applied.
Applied == Cardinality({t \in DOMAIN tasks : tasks[t].pc # "sent"})

\* upsert_analysis up to the index.upsert request.
SendUpsert(t, frame_number) ==
    /\ t \notin DOMAIN tasks
    /\ tasks' = tasks @@ (t :> [pc |-> "sent", applied |-> 0,
                               vector |-> Vector(1, Seconds(FrameInterval * frame_number),
                                                 frame_number, TaskAnalysis(t),
                                                 TaskVideo(t), TaskSession(t))])
    /\ UNCHANGED <<store, last, sessionOf, purged, process, manager>>

\* The backend applies the request of the task.
ApplyUpsert(t) ==
    /\ t \in DOMAIN tasks
    /\ tasks[t].pc = "sent"
    /\ store' = IndexUpsert(store, tasks[t].vector)
    /\ tasks' = [tasks EXCEPT ![t].pc = "applied", ![t].applied = Applied + 1]
    /\ sessionOf' = [i \in DOMAIN sessionOf \cup {tasks[t].vector.id} |->
                        IF i = tasks[t].vector.id THEN TaskSession(t) ELSE sessionOf[i]]
    /\ purged' = purged \ {TaskSession(t)}
    /\ UNCHANGED <<last, process, manager>>

\* upsert_analysis returns the id.
ReturnUpsert(t) ==
    /\ t \in DOMAIN tasks
    /\ tasks[t].pc = "applied"
    /\ tasks' = [tasks EXCEPT ![t].pc = "done"]
    /\ last' = [op |-> "upsert_analysis", outcome |-> "returned", task |-> t,
                result |-> tasks[t].vector.id]
    /\ UNCHANGED <<store, sessionOf, purged, process, manager>>

NextConcurrent ==
    \E t \in Tasks :
        \/ \E frame_number \in Frames : SendUpsert(t, frame_number)
        \/ ApplyUpsert(t)
        \/ ReturnUpsert(t)

SpecConcurrent == Init /\ [][NextConcurrent]_vars

(***************************************************************************)
(* SpecFrames: the frames of videos of one camera with different frame     *)
(* rates are stored, in one session or in none, and the session is         *)
(* deleted.  A frame of a video has the timestamp frame_num / fps; frame   *)
(* 750 is extracted from a video of 25 and from one of 30 frames per       *)
(* second.                                                                 *)
(***************************************************************************)
FrameRates == {25, 30}

SharedFrames == {0, 750}

FrameTime(frame_num, fps) == (frame_num * TicksPerSecond) \div fps

NextFrames ==
    \/ \E fps \in FrameRates, frame_num \in SharedFrames, context \in RangeContexts, up \in BOOLEAN :
          UpsertAnalysis(1, FrameTime(frame_num, fps), frame_num, AnalysisSparse, context[1], context[2], up)
    \/ DeleteBySession("s1")

SpecFrames == Init /\ [][NextFrames]_vars

(***************************************************************************)
(* Properties of the time-range query.                                     *)
(***************************************************************************)
IsRangeQuery == last.op = "query_by_time_range" /\ last.outcome = "returned"

Indices(list) == 1..Len(list)

IdsOf(list) == {list[i].id : i \in Indices(list)}

\* The stored records of the queried camera whose timestamp lies in the window.
InWindow ==
    {v \in store : /\ v.metadata.camera_id = last.camera_id
                   /\ last.start_time <= v.metadata.timestamp
                   /\ v.metadata.timestamp <= last.end_time}

\* An insight carries the id and every metadata field of a stored record.
IsStored(insight) ==
    \E v \in store :
        /\ v.id = insight.id
        /\ \A k \in DOMAIN v.metadata : k \in DOMAIN insight /\ insight[k] = v.metadata[k]

\* C2 as stated: for a <= b the result of query_by_time_range is exactly the
\* set of stored records of the camera with a <= t <= b; none is missing.
C2_RangeComplete ==
    (IsRangeQuery /\ last.start_time <= last.end_time) =>
        IdsOf(last.result) = {v.id : v \in InWindow}

\* C2 amended: the result holds records of the window only, without
\* repetition, and min(top_k, number of records in the window) of them; so it
\* is exactly the window when at most top_k records lie in it.
C2_RangeCompleteUpToTopK ==
    (IsRangeQuery /\ last.start_time <= last.end_time) =>
        /\ IdsOf(last.result) \subseteq {v.id : v \in InWindow}
        /\ \A i \in Indices(last.result) : IsStored(last.result[i])
        /\ Cardinality(IdsOf(last.result)) = Len(last.result)
        /\ Len(last.result) = Min(last.top_k, Cardinality(InWindow))
        /\ Cardinality(InWindow) <= last.top_k =>
              IdsOf(last.result) = {v.id : v \in InWindow}

C2_Witness ==
    /\ IsRangeQuery
    /\ last.start_time <= last.end_time
    /\ Cardinality(InWindow) = 2
    /\ Len(last.result) = 2

\* C3: every record returned by query_by_time_range(c, a, b, top_k) has
\* camera_id c and a timestamp in [a, b], and at most top_k are returned.
C3_RangeSound ==
    IsRangeQuery =>
        /\ Len(last.result) <= last.top_k
        /\ \A i \in Indices(last.result) :
              /\ last.result[i].camera_id = last.camera_id
              /\ last.start_time <= last.result[i].timestamp
              /\ last.result[i].timestamp <= last.end_time

C3_Witness ==
    /\ IsRangeQuery
    /\ Len(last.result) = 1
    /\ \E v \in store : v.metadata.camera_id # last.camera_id
                        /\ v.metadata.timestamp >= last.start_time
                        /\ v.metadata.timestamp <= last.end_time

\* C4 as stated: the result is ascending by timestamp, records of equal
\* timestamp by ascending frame_number (and then by id).
C4_RangeOrderTieBreak ==
    IsRangeQuery =>
        \A i, j \in Indices(last.result) :
            i < j =>
                \/ last.result[i].timestamp < last.result[j].timestamp
                \/ /\ last.result[i].timestamp = last.result[j].timestamp
                   /\ last.result[i].frame_number <= last.result[j].frame_number

(***************************************************************************)
(* Properties of upsert_analysis.                                          *)
(***************************************************************************)
IsUpsert == last.op = "upsert_analysis" /\ last.outcome = "returned"

\* The optional metadata key is present exactly when the argument was given,
\* and then holds the argument.
OptionalIs(metadata, key, argument) ==
    IF argument = None \/ argument = ""
    THEN key \notin DOMAIN metadata
    ELSE key \in DOMAIN metadata /\ metadata[key] = argument

\* C1: after upsert_analysis wrote an id (again), exactly one stored record has
\* that id, and its metadata is that of this call: every field comes from the
\* call's arguments and no key of an earlier write is left over.
C1_IdempotentUpsert ==
    IsUpsert =>
        LET same == {v \in store : v.id = last.result}
            a == last.analysis
        IN  /\ Cardinality(same) = 1
            /\ \A v \in same :
                  /\ v.metadata.camera_id = last.camera_id
                  /\ v.metadata.frame_number = last.frame_number
                  /\ v.metadata.timestamp = last.timestamp
                  /\ v.metadata.threat_level =
                        (IF "threat_level" \in DOMAIN a THEN a.threat_level ELSE "none")
                  /\ v.metadata.weapon_type =
                        (IF "weapon_type" \in DOMAIN a THEN a.weapon_type ELSE "none")
                  /\ v.metadata.people_count =
                        (IF "people_count" \in DOMAIN a THEN a.people_count ELSE 0)
                  /\ v.metadata.unfamiliar_face =
                        (IF "unfamiliar_face" \in DOMAIN a THEN a.unfamiliar_face ELSE FALSE)
                  /\ v.metadata.threats =
                        (IF "threats_detected" \in DOMAIN a
                         THEN Join(a.threats_detected, ",") ELSE "")
                  /\ v.metadata.description =
                        (IF "description" \in DOMAIN a THEN a.description ELSE "")
                  /\ v.metadata.searchable_text = _create_searchable_text(a)
                  /\ OptionalIs(v.metadata, "session_id", last.session_id)
                  /\ OptionalIs(v.metadata, "video_path", last.video_path)

\* The second write of an id, with another analysis and without the
\* video_path and session_id that the first write had.
C1_Witness ==
    /\ IsUpsert
    /\ \E old \in last.prior :
          /\ old.metadata.camera_id = last.camera_id
          /\ old.metadata.frame_number = last.frame_number
          /\ old.metadata.timestamp = last.timestamp
          /\ old.metadata.threat_level = "critical"
          /\ "session_id" \in DOMAIN old.metadata
          /\ "video_path" \in DOMAIN old.metadata
    /\ last.analysis = AnalysisSparse
    /\ last.session_id = None
    /\ last.video_path = None
    /\ Cardinality(store) = 2

(***************************************************************************)
(* Properties of delete_by_session.                                        *)
(***************************************************************************)
IsQuery ==
    /\ last.op \in {"query_by_time_range", "query_by_semantic_search",
                    "query_by_threat_level"}
    /\ last.outcome = "returned"

IsDelete == last.op = "delete_by_session" /\ last.outcome = "returned"

\* The ids in the store whose latest upsert was made with session_id s.
UpsertedWith(s) == {i \in DOMAIN sessionOf : sessionOf[i] = s}

NotReturned(ids) ==
    IsQuery => \A i \in Indices(last.result) : last.result[i].id \notin ids

\* C5 as stated: once delete_by_session(s) completed, and until the next
\* upsert with session s, no record upserted with session_id s is in the
\* store or in the result of a query; the deletion itself never fails.
C5_SessionDeleted ==
    /\ \A s \in purged :
          /\ \A v \in store : v.id \notin UpsertedWith(s)
          /\ NotReturned(UpsertedWith(s))
    /\ last.op = "delete_by_session" => last.outcome = "returned"

\* C5 amended: the same for every session id s other than the empty string.
C5_NamedSessionDeleted ==
    /\ \A s \in purged \ {""} :
          /\ \A v \in store : v.id \notin UpsertedWith(s)
          /\ NotReturned(UpsertedWith(s))
    /\ last.op = "delete_by_session" => last.outcome = "returned"

\* delete_by_session("s1") removed a record and left one of another session.
C5_Witness ==
    /\ IsDelete
    /\ last.session_id = "s1"
    /\ \E v \in last.before : v.id \in {w.id : w \in last.before \ store}
    /\ store # {}

\* The records whose metadata has no session_id equal to s.
OtherSessions(index, s) ==
    {v \in index : "session_id" \notin DOMAIN v.metadata \/ v.metadata.session_id # s}

\* C6: delete_by_session(s) leaves the records of every other session, and
\* the records without session, in the store with all their fields.
C6_DeleteFrame ==
    IsDelete =>
        /\ OtherSessions(store, last.session_id) = OtherSessions(last.before, last.session_id)
        /\ OtherSessions(last.before, last.session_id) \subseteq store

\* A deletion that removed a record of session s while a record of another
\* named session was in the store.
C6_Witness ==
    /\ IsDelete
    /\ store # last.before
    /\ \E v \in store : "session_id" \in DOMAIN v.metadata

(***************************************************************************)
(* Properties of parse_time_query.                                         *)
(***************************************************************************)
IsParse == last.op = "parse_time_query"

Tenths(n) == (n * TicksPerSecond) \div 10

\* The kinds of time phrase in the text, and the highest priority among them.
KindsIn(phrases) ==
    {PhraseTable[phrases[i]].kind : i \in DOMAIN phrases} \ {0}

BestKind(phrases) ==
    CHOOSE k \in KindsIn(phrases) : \A other \in KindsIn(phrases) : k <= other

\* The leftmost phrase of the best kind.
Deciding(phrases) ==
    PhraseTable[phrases[CHOOSE i \in DOMAIN phrases :
        /\ PhraseTable[phrases[i]].kind = BestKind(phrases)
        /\ \A j \in DOMAIN phrases :
              PhraseTable[phrases[j]].kind = BestKind(phrases) => i <= j]]

\* C8: the result of parse_time_query is the window of the pattern that comes
\* first in the order between-and, first, last, from-to, at, M:SS among the
\* patterns the text matches, wherever the phrases stand in the text; a text
\* with no time phrase gives None.
C8_ParsingPriority ==
    IsParse =>
        IF KindsIn(last.phrases) = {}
        THEN last.result = NoTimeParams
        ELSE /\ last.result # NoTimeParams
             /\ last.result.start_time = Tenths(Deciding(last.phrases).from)
             /\ last.result.end_time = Tenths(Deciding(last.phrases).to)

\* A text in which a phrase of lower priority stands before the phrase of
\* the pattern that decides.
C8_Witness ==
    /\ IsParse
    /\ Len(last.phrases) = 2
    /\ PhraseTable[last.phrases[1]].kind = 6
    /\ PhraseTable[last.phrases[2]].kind = 1
    /\ last.result # NoTimeParams
    /\ last.result.start_time = Seconds(15)
    /\ last.result.end_time = Seconds(20)

(***************************************************************************)
(* Properties of query_temporal_events and get_threat_timeline.            *)
(***************************************************************************)
IsQueryTemporalEvents == last.op = "query_temporal_events"

IsTimeline == last.op = "get_threat_timeline"

LevelOrder == <<"none", "low", "medium", "high", "critical">>

\* Level a is above level b in the order none < low < medium < high < critical.
Above(a, b) ==
    \E i, j \in DOMAIN LevelOrder : LevelOrder[i] = a /\ LevelOrder[j] = b /\ i > j

\* A time-range answer of query_temporal_events with matched records.
HasSeverity ==
    /\ IsQueryTemporalEvents
    /\ last.outcome = "returned"
    /\ "max_threat_level" \in DOMAIN last.result.summary

\* C7: the max_threat_level of the summary is the threat_level of a matched
\* record, and no matched record has a level above it.
C7_SeverityMaximum ==
    HasSeverity =>
        LET events == last.result.events
            max_level == last.result.summary.max_threat_level
        IN  /\ \E i \in DOMAIN events : events[i].threat_level = max_level
            /\ \A i \in DOMAIN events : ~Above(events[i].threat_level, max_level)

\* C9: every time-range request passed to the store by query_temporal_events
\* or get_threat_timeline has start_time <= end_time.
C9_WellFormedRequest ==
    (IsQueryTemporalEvents \/ IsTimeline) =>
        \A i \in DOMAIN last.calls :
            last.calls[i].method = "query_by_time_range" =>
                last.calls[i].start_time <= last.calls[i].end_time

\* C10: when the store can be constructed, query_temporal_events makes
\* exactly one store query: a semantic search for a text with no time
\* phrase, a time-range query for a text with one; the call raises only
\* when the backend query fails, whatever the text.
C10_FallbackDispatch ==
    (IsQueryTemporalEvents /\ Constructed(last.fault)) =>
        /\ Len(last.calls) = 1
        /\ last.calls[1].method =
              (IF KindsIn(last.phrases) = {}
               THEN "query_by_semantic_search"
               ELSE "query_by_time_range")
        /\ last.outcome = "raised" <=> last.fault = "query"

\* A text without a time phrase was answered by a semantic search that
\* found records.
C10_Witness ==
    /\ IsQueryTemporalEvents
    /\ KindsIn(last.phrases) = {}
    /\ last.outcome = "returned"
    /\ last.calls = <<SemanticCall(last.query, NoneNum, SemanticTopK)>>
    /\ last.result.status = "success"
    /\ last.result.summary.event_count = 2

(***************************************************************************)
(* Properties of the answers when nothing matches.                         *)
(***************************************************************************)
\* The stored records that the store query of the last call asks for.
Requested(call) ==
    IF call.method = "query_by_time_range"
    THEN {v \in store : /\ v.metadata.camera_id = call.camera_id
                        /\ call.start_time <= v.metadata.timestamp
                        /\ v.metadata.timestamp <= call.end_time}
    ELSE {v \in store : call.camera_id \in {NoneNum, v.metadata.camera_id}}

\* C11: when no stored record matches the request and the backend answers,
\* query_by_time_range returns the empty list, and query_temporal_events
\* returns status "success" with no events and event_count 0, in the
\* time-range mode and in the semantic mode.
C11_NoMatchIsSuccess ==
    /\ (IsRangeQuery /\ InWindow = {}) =>
          last.outcome = "returned" /\ last.result = <<>>
    /\ (/\ IsQueryTemporalEvents
        /\ last.fault = "none"
        /\ Requested(last.calls[1]) = {}) =>
          /\ last.outcome = "returned"
          /\ last.result.status = "success"
          /\ last.result.events = <<>>
          /\ last.result.summary.event_count = 0

\* The store holds records, none of them in the window of the text.
C11_Witness ==
    /\ IsQueryTemporalEvents
    /\ last.fault = "none"
    /\ store # {}
    /\ last.calls[1].method = "query_by_time_range"
    /\ Requested(last.calls[1]) = {}
    /\ last.result.events = <<>>
    /\ last.result.message = "No events found in Camera 1 between 0.0s and 3.5s"

(***************************************************************************)
(* Properties of the calls during which the backend fails.                 *)
(***************************************************************************)
\* C12: a call of query_temporal_events or get_threat_timeline during which
\* the store cannot be constructed or the backend query fails returns a
\* response whose status is "error"; no exception leaves the call.
C12_FailureIsStatus ==
    ((IsQueryTemporalEvents \/ IsTimeline) /\ last.fault # "none") =>
        /\ last.outcome = "returned"
        /\ last.result.status = "error"

(***************************************************************************)
(* Properties of _store_camera_insights.                                   *)
(***************************************************************************)
IsIngest == last.op = "_store_camera_insights"

\* The record that position i of the batch is stored as.
FrameVector(i) ==
    Vector(last.camera_id, last.frame_analyses[i].timestamp,
           last.frame_analyses[i].frame_number, last.frame_analyses[i],
           last.video_path, last.session_id)

\* An upsert was attempted for every frame in batch order, and every frame
\* whose upsert succeeded is stored.
SkipAndContinue ==
    /\ last.attempts = [i \in DOMAIN last.frame_analyses |-> i]
    /\ last.stored = DOMAIN last.frame_analyses \ last.failing
    /\ \A i \in last.stored : FrameVector(i) \in store

\* C13: _store_camera_insights attempts an upsert for every frame in batch
\* order, stores every frame whose upsert succeeds, and ends with
\* stored_count + failed_count equal to the batch size.
C13_SkipAndContinue ==
    IsIngest =>
        /\ SkipAndContinue
        /\ last.stored_count + last.failed_count = Len(last.frame_analyses)

(***************************************************************************)
(* Properties of get_threat_timeline.                                      *)
(***************************************************************************)
IsTimelineAnswer == IsTimeline /\ last.outcome = "returned"

FiveLevels == {LevelOrder[i] : i \in DOMAIN LevelOrder}

\* The timeline records of the level, in timeline order.
OfLevel(timeline, level) ==
    SelectSeq(timeline, LAMBDA insight : insight.threat_level = level)

\* C14: by_threat_level has exactly the keys none, low, medium, high and
\* critical, each bucket holds the timeline records of its level in timeline
\* order, and summary gives the size of each of the five buckets.
C14_TimelineBuckets ==
    IsTimelineAnswer =>
        /\ DOMAIN last.result.by_threat_level = FiveLevels
        /\ \A level \in FiveLevels :
              /\ last.result.by_threat_level[level] = OfLevel(last.result.timeline, level)
              /\ last.result.summary[level] = Len(last.result.by_threat_level[level])

\* The stored records of the camera of the last call.
OfCamera == {v \in store : v.metadata.camera_id = last.camera_id}

\* Those of them whose timestamp lies in the window of the timeline.
InTimelineWindow ==
    {v \in OfCamera : /\ 0 <= v.metadata.timestamp
                      /\ v.metadata.timestamp <= Seconds(TimelineEndSeconds)}

C16_ThreatLevelDomain ==
    /\ \A v \in store : v.metadata.threat_level \in FiveLevels
    /\ IsUpsert =>
          \A v \in store :
              v.id = last.result =>
                  v.metadata.threat_level =
                      (IF Get(last.analysis, "threat_level", "none") \in FiveLevels
                       THEN Get(last.analysis, "threat_level", "none")
                       ELSE "none")

\* The stored threats, which are joined by ",", as they stand in the text,
\* where they are joined by ", ".
RECURSIVE SpacedCommas(_)
SpacedCommas(s) ==
    IF Len(s) = 0 THEN ""
    ELSE (IF Head(s) = "," THEN ", " ELSE Head(s)) \o SpacedCommas(Tail(s))

\* The searchable text made anew from the other stored fields of a record.
Regenerated(metadata) ==
    Join(<<"Threat level: " \o metadata.threat_level>>
         \o (IF metadata.threats # ""
             THEN <<"Threats: " \o SpacedCommas(metadata.threats)>> ELSE <<>>)
         \o (IF metadata.weapon_type # "none"
             THEN <<"Weapon detected: " \o metadata.weapon_type>> ELSE <<>>)
         \o <<"People count: " \o ToString(metadata.people_count)>>
         \o (IF metadata.unfamiliar_face THEN <<"Unknown person detected">> ELSE <<>>)
         \o (IF metadata.description # ""
             THEN <<"Scene: " \o metadata.description>> ELSE <<>>),
         " | ")

AllDone == DOMAIN tasks = Tasks /\ \A t \in Tasks : tasks[t].pc = "done"

\* The tasks that wrote the id, and the one of them whose request the
\* backend applied last.
Writers(id) == {t \in DOMAIN tasks : tasks[t].vector.id = id}

LastWriter(id) ==
    CHOOSE t \in Writers(id) : \A u \in Writers(id) : tasks[u].applied <= tasks[t].applied

\* C18: when all the concurrent calls have completed, the store holds one
\* record for each id that was written and no other, and the record of an
\* id is the whole vector of the call whose request was applied last.
C18_ConcurrentUpserts ==
    AllDone =>
        /\ {v.id : v \in store} = {tasks[t].vector.id : t \in Tasks}
        /\ \A v \in store :
              /\ Cardinality({w \in store : w.id = v.id}) = 1
              /\ v = tasks[LastWriter(v.id)].vector

\* Two sessions wrote the same id, the one whose request was sent first was
\* applied last, and a third call wrote another id.
C18_Witness ==
    /\ AllDone
    /\ tasks[1].vector.id = tasks[2].vector.id
    /\ tasks[3].vector.id # tasks[1].vector.id
    /\ tasks[2].applied < tasks[3].applied
    /\ tasks[3].applied < tasks[1].applied
    /\ tasks[1].vector \in store

(***************************************************************************)
(* Properties of the life of a record.                                     *)
(***************************************************************************)
StoredIds == {v.id : v \in store}

\* C19 as stated: the store holds at most one record for each pair of
\* camera_id and frame_number.
C19_OneRecordPerFrame ==
    \A v, w \in store :
        (/\ v.metadata.camera_id = w.metadata.camera_id
         /\ v.metadata.frame_number = w.metadata.frame_number) => v = w

\* C19, amended: the store holds at most one record for each id, that is
\* for each camera_id, frame_number and millisecond of the timestamp, and
\* an id leaves the store only in a delete_by_session.
C19_OneRecordPerId ==
    /\ [](\A v, w \in store : v.id = w.id => v = w)
    /\ [][StoredIds \ StoredIds' # {} => last'.op = "delete_by_session"]_vars

\* The store holds two records of one frame number of the camera.
C19_Witness ==
    \E v, w \in store :
        /\ v.id # w.id
        /\ v.metadata.camera_id = w.metadata.camera_id
        /\ v.metadata.frame_number = w.metadata.frame_number
        /\ "session_id" \in DOMAIN v.metadata

(***************************************************************************)
(* Properties of the "at X seconds" pattern.                               *)
(***************************************************************************)
\* The text is decided by an "at X seconds" phrase.
IsAtParse == IsParse /\ KindsIn(last.phrases) # {} /\ BestKind(last.phrases) = 5

\* The X of the phrase that decides, in ticks: the number that stands in it.
AtTime == Seconds(ParseInt(Search(<<Num>>, Deciding(last.phrases).phrase).groups[1]))

SemanticAnalyses == {AnalysisSparse, AnalysisFull}

OptionalCameras == {NoneNum} \cup Cameras

OptionalTicks == {NoneNum} \cup Ticks

NextSemantic ==
    \/ \E camera_id \in Cameras, timestamp \in Ticks, analysis \in SemanticAnalyses :
          UpsertAnalysis(camera_id, timestamp, 0, analysis, None, None, TRUE)
    \/ \E query_text \in SearchTexts, camera_id \in OptionalCameras,
          start_time \in OptionalTicks, end_time \in OptionalTicks, top_k \in TopKs :
          QueryBySemanticSearch(query_text, camera_id, start_time, end_time, top_k)

SpecSemantic == Init /\ [][NextSemantic]_vars

(***************************************************************************)
(* Properties of query_by_semantic_search.                                 *)
(***************************************************************************)
IsSemanticSearch ==
    last.op = "query_by_semantic_search" /\ last.outcome = "returned"

\* The insight is a record of the store, with the score of the query on it.
IsScored(insight) ==
    \E v \in store :
        /\ v.id = insight.id
        /\ insight = v.metadata @@
              [id |-> v.id,
               relevance_score |->
                  Similarity(_create_embedding(last.query_text), v.values)]

\* C21: every record query_by_semantic_search returns is a stored record of
\* the given camera, when one is given, with its timestamp within
\* [start_time, end_time], when both are given; at most top_k records are
\* returned, none twice, in the order of descending relevance score.
C21_SemanticFilterAndOrder ==
    IsSemanticSearch =>
        /\ Len(last.result) <= last.top_k
        /\ \A i \in Indices(last.result) :
              /\ IsScored(last.result[i])
              /\ last.camera_id # NoneNum =>
                    last.result[i].camera_id = last.camera_id
              /\ (last.start_time # NoneNum /\ last.end_time # NoneNum) =>
                    /\ last.result[i].timestamp >= last.start_time
                    /\ last.result[i].timestamp <= last.end_time
        /\ \A i, j \in Indices(last.result) :
              i < j => /\ last.result[i].id # last.result[j].id
                       /\ last.result[i].relevance_score >=
                             last.result[j].relevance_score

\* A search with a camera and both time bounds returns the record of the
\* camera, while the store holds a record of the other camera, within the
\* bounds, that has a higher score.
C21_Witness ==
    /\ IsSemanticSearch
    /\ last.camera_id = 1
    /\ last.start_time = 0
    /\ last.end_time = 1
    /\ Len(last.result) = 1
    /\ \E v \in store :
          /\ v.metadata.camera_id = 2
          /\ Similarity(_create_embedding(last.query_text), v.values) >
                last.result[1].relevance_score

(***************************************************************************)
(* The pipeline object.  Its constructor builds the store when temporal    *)
(* storage is asked for, and catches what the store's constructor raises:  *)
(* the pipeline then runs with temporal_storage_enabled False.             *)
(* analyze_all_cameras stores the frames of a camera only when             *)
(* temporal_storage_enabled is True.                                       *)
(***************************************************************************)
StorageEnabled == "temporal_storage_enabled"

StorageDisabled == "temporal_storage_disabled"

ConstructionFaults == {"none", "no_api_key", "list_indexes"}

\* ComprehensiveThreatDetectionPipeline(enable_temporal_storage=...)
ConstructPipeline(enable_temporal_storage, fault) ==
    /\ process.pipeline = None
    /\ CanConstruct
    /\ process' = IF enable_temporal_storage
                  THEN [TemporalVectorStore(fault) EXCEPT
                           !.pipeline = IF Constructed(fault) THEN StorageEnabled
                                        ELSE StorageDisabled]
                  ELSE [process EXCEPT !.pipeline = StorageDisabled]
    /\ last' = [op |-> "ComprehensiveThreatDetectionPipeline",
                outcome |-> "returned",
                enable_temporal_storage |-> enable_temporal_storage,
                fault |-> fault,
                calls |-> IF enable_temporal_storage /\ fault # "no_api_key"
                          THEN <<"list_indexes">> ELSE <<>>,
                temporal_storage_enabled |->
                    enable_temporal_storage /\ Constructed(fault)]
    /\ UNCHANGED <<store, sessionOf, purged, tasks, manager>>

\* The body of the loop of analyze_all_cameras for a camera whose video
\* exists and was analysed to frame_analyses.
AnalyzeCamera(camera_id, frame_analyses, video_path, session_id, failing) ==
    LET done == StoreFrames([index |-> store, attempts |-> <<>>, stored |-> {},
                             stored_count |-> 0, failed_count |-> 0],
                            1, camera_id, frame_analyses, video_path, session_id, failing)
        ids == {RecordId(camera_id, Get(frame_analyses[i], "frame_number", 0),
                         Get(frame_analyses[i], "timestamp", 0)) : i \in done.stored}
        call == [op |-> "analyze_all_cameras", outcome |-> "returned",
                 camera_id |-> camera_id,
                 temporal_storage_enabled |-> process.pipeline = StorageEnabled,
                 result |-> [camera_id |-> camera_id,
                             frame_analyses |-> frame_analyses]]
    IN  /\ process.pipeline # None
        /\ \/ /\ process.pipeline = StorageEnabled
              /\ Cardinality(done.index) <= MaxRecords
              /\ store' = done.index
              /\ last' = call @@ [stored |-> done.stored]
              /\ sessionOf' = [i \in DOMAIN sessionOf \cup ids |->
                                  IF i \in ids THEN session_id ELSE sessionOf[i]]
              /\ purged' = IF ids = {} THEN purged ELSE purged \ {session_id}
           \/ /\ process.pipeline = StorageDisabled
              /\ last' = call @@ [stored |-> {}]
              /\ UNCHANGED <<store, sessionOf, purged>>
        /\ UNCHANGED <<tasks, process, manager>>

(***************************************************************************)
(* SpecProcess: one process builds the pipeline, ingests videos of camera  *)
(* 1 and answers the two query tools, with the backend credential present  *)
(* or missing.                                                             *)
(***************************************************************************)
ProcessPhrases == {<<1>>, <<6>>}

NextProcess ==
    \/ \E enable_temporal_storage \in BOOLEAN, fault \in ConstructionFaults :
          ConstructPipeline(enable_temporal_storage, fault)
    \/ \E frame_analyses \in Batches, failing \in {{}, {1}} :
          AnalyzeCamera(1, frame_analyses, "videos/cam.mp4", "s1", failing)
    \/ \E phrases \in ProcessPhrases, fault \in Faults :
          QueryTemporalEvents(phrases, fault)
    \/ \E fault \in Faults : GetThreatTimeline(1, fault)

SpecProcess == Init /\ [][NextProcess]_vars

(***************************************************************************)
(* Properties of the construction of the store.                            *)
(***************************************************************************)
\* The last operation built a TemporalVectorStore while the credential was
\* missing.
BuiltWithoutKey ==
    /\ last.op \in {"ComprehensiveThreatDetectionPipeline",
                    "query_temporal_events", "get_threat_timeline"}
    /\ last.fault = "no_api_key"
    /\ last.op = "ComprehensiveThreatDetectionPipeline" => last.enable_temporal_storage

\* C22: when PINECONE_API_KEY is missing, every component that constructs
\* the store makes no backend call and raises, instead of returning.
C22_ConfigurationFailureIsFatal ==
    BuiltWithoutKey =>
        /\ last.calls = <<>>
        /\ last.outcome = "raised"

(***************************************************************************)
(* Properties of the camera of a request.                                  *)
(***************************************************************************)
\* The cameras the phrases of the text refer to, in the order of the text.
CamerasIn(phrases) ==
    SelectSeq([i \in DOMAIN phrases |-> PhraseTable[phrases[i]].camera],
              LAMBDA camera : camera # 0)

\* C23: the request query_temporal_events sends to the store carries the
\* camera the text refers to; when the text refers to none, a time-range
\* request carries camera 1 and a semantic request carries no camera.
C23_DefaultCamera ==
    (IsQueryTemporalEvents /\ Len(last.calls) = 1) =>
        last.calls[1].camera_id =
            (IF CamerasIn(last.phrases) # <<>> THEN Head(CamerasIn(last.phrases))
             ELSE IF last.calls[1].method = "query_by_time_range" THEN DefaultCamera
             ELSE NoneNum)

\* A text with a time phrase and a reference to camera 2 was answered by a
\* time-range request for camera 2.
C23_Witness ==
    /\ IsQueryTemporalEvents
    /\ last.outcome = "returned"
    /\ CamerasIn(last.phrases) = <<2>>
    /\ KindsIn(last.phrases) # {}
    /\ Len(last.calls) = 1
    /\ last.calls[1].method = "query_by_time_range"
    /\ last.calls[1].camera_id = 2
    /\ store # {}

(***************************************************************************)
(* Properties of the M:SS pattern.                                         *)
(***************************************************************************)
\* The numbers written in the text, in the order of the text.
RECURSIVE NumbersFrom(_, _)
NumbersFrom(text, pos) ==
    IF pos > Len(text) THEN <<>>
    ELSE IF IsDigit(Char(text, pos))
         THEN LET end == CHOOSE e \in pos..Len(text) :
                            /\ \A i \in pos..e : IsDigit(Char(text, i))
                            /\ e = Len(text) \/ ~IsDigit(Char(text, e + 1))
              IN  <<ParseInt(SubSeq(text, pos, end))>> \o NumbersFrom(text, end + 1)
         ELSE NumbersFrom(text, pos + 1)

\* The text is decided by an "M1:S1 to M2:S2" phrase.
IsTimeFormatParse ==
    IsParse /\ KindsIn(last.phrases) # {} /\ BestKind(last.phrases) = 6

\* C24: a text whose first matching pattern is "M1:S1 to M2:S2" is parsed
\* to start_time 60*M1 + S1 and end_time 60*M2 + S2, with or without the
\* word "from" before the phrase.
C24_MinutesAndSeconds ==
    IsTimeFormatParse =>
        LET numbers == NumbersFrom(Deciding(last.phrases).phrase, 1)
        IN  /\ last.result # NoTimeParams
            /\ last.result.start_time = Seconds(60 * numbers[1] + numbers[2])
            /\ last.result.end_time = Seconds(60 * numbers[3] + numbers[4])

\* "from 2:00 to 1:00" behind a phrase without a time: 120 to 60.
C24_Witness ==
    /\ IsTimeFormatParse
    /\ Len(last.phrases) = 2
    /\ PhraseTable[last.phrases[1]].kind = 0
    /\ Deciding(last.phrases).phrase = "from 2:00 to 1:00"
    /\ last.result.start_time = Seconds(120)
    /\ last.result.end_time = Seconds(60)

(***************************************************************************)
(* Properties of the process-wide resources.                               *)
(***************************************************************************)
\* C25: whatever calls the process has made, it has loaded the embedding
\* model at most once and created the index handle at most once.
C25_SingleInitialization ==
    /\ process.models <= 1
    /\ process.handles <= 1

(***************************************************************************)
(* SpecIds: frames are stored whose cameras and frame numbers have one or  *)
(* two digits and whose timestamps lie in the same millisecond or in       *)
(* different ones.                                                         *)
(***************************************************************************)
IdCameras == {1, 11}

IdFrames == {1, 11}

IdTicks == {0, 1, TicksPerMs}

\* f"cam{camera_id}_f{frame_number}_{int(timestamp*1000)}"
RecordIdText(id) ==
    "cam" \o ToString(id[1]) \o "_f" \o ToString(id[2]) \o "_" \o ToString(id[3])

NextIds ==
    \E camera_id \in IdCameras, frame_number \in IdFrames, timestamp \in IdTicks :
        UpsertAnalysis(camera_id, timestamp, frame_number, AnalysisSparse, None, None, TRUE)

SpecIds == Init /\ [][NextIds]_vars

(***************************************************************************)
(* Properties of the record id.                                            *)
(***************************************************************************)
\* The record was written with the camera, frame number and timestamp of
\* the last call.
SameTriple(v) ==
    /\ v.metadata.camera_id = last.camera_id
    /\ v.metadata.frame_number = last.frame_number
    /\ v.metadata.timestamp = last.timestamp

\* The same, but for the part of the timestamp below the millisecond.
SameTripleToTheMillisecond(v) ==
    /\ v.metadata.camera_id = last.camera_id
    /\ v.metadata.frame_number = last.frame_number
    /\ v.metadata.timestamp \div TicksPerMs = last.timestamp \div TicksPerMs

\* C26 as stated: an upsert overwrites a record only if the record was
\* written with the same camera, frame number and timestamp.
C26_IdInjective ==
    IsUpsert => \A v \in last.prior : SameTriple(v)

\* C26, amended: an upsert overwrites exactly the record written with the
\* same camera, the same frame number and a timestamp of the same
\* millisecond; records that differ in one of the three stay, and the ids
\* of different records are different strings.
C26_IdInjectiveToTheMillisecond ==
    /\ [](/\ IsUpsert =>
              /\ \A v \in last.prior : SameTripleToTheMillisecond(v)
              /\ \A v \in store : SameTripleToTheMillisecond(v) => v.id = last.result
          /\ \A v, w \in store : RecordIdText(v.id) = RecordIdText(w.id) => v = w)
    /\ [][\A v \in store : v \in store' \/ v \in last'.prior]_vars

\* A record was overwritten by a call whose timestamp differs from the
\* record's by less than a millisecond, next to a record one millisecond
\* later that stayed.
C26_Witness ==
    /\ IsUpsert
    /\ \E v \in last.prior : v.metadata.timestamp # last.timestamp
    /\ \E w \in store :
          /\ w.metadata.camera_id = last.camera_id
          /\ w.metadata.frame_number = last.frame_number
          /\ w.metadata.timestamp = TicksPerMs
    /\ Cardinality(store) = 2

(***************************************************************************)
(* Properties of the records without a session.                            *)
(***************************************************************************)
Sessionless(index) == {v \in index : "session_id" \notin DOMAIN v.metadata}

\* C27: a record upserted with session_id None or "" is stored without a
\* session_id field, also when the id had a session tag before, and
\* delete_by_session, whatever its argument, removes no record without a
\* session_id field.
C27_SessionlessPermanent ==
    /\ [](\A v \in store : sessionOf[v.id] \in {None, ""} <=> v \in Sessionless(store))
    /\ [][last'.op = "delete_by_session" => Sessionless(store) \subseteq store']_vars

\* delete_by_session("s1") and then delete_by_session("") ran, and the store
\* still holds two records, one of them upserted with session_id "".
C27_Witness ==
    /\ IsDelete
    /\ last.session_id = ""
    /\ \E v \in Sessionless(store) : sessionOf[v.id] = ""
    /\ "s1" \in purged
    /\ Cardinality(store) = 2

\* Exactly one of start_time and end_time was given.
OneSided ==
    IsSemanticSearch /\ ((last.start_time = NoneNum) # (last.end_time = NoneNum))

\* The stored records of the camera of the search (all, when none is given).
OfSearchCamera ==
    {v \in store : last.camera_id \in {NoneNum, v.metadata.camera_id}}

RECURSIVE SumOver(_, _)
SumOver(f, keys) ==
    IF keys = {} THEN 0
    ELSE LET k == CHOOSE x \in keys : TRUE
         IN  f[k] + SumOver(f, keys \ {k})

\* C29: in every answer of get_threat_timeline the five summary counts add
\* up to total_events, which is the length of timeline and the number of
\* records in the buckets of by_threat_level.
C29_TimelineCounts ==
    IsTimelineAnswer =>
        LET r == last.result
        IN  /\ r.total_events = Len(r.timeline)
            /\ r.total_events =
                  SumOver([level \in DOMAIN r.by_threat_level |->
                              Len(r.by_threat_level[level])],
                          DOMAIN r.by_threat_level)
            /\ r.total_events = SumOver(r.summary, FiveLevels)

(***************************************************************************)
(* ConnectionManager.  broadcast iterates over the set active_connections  *)
(* and is suspended in every send; while it is suspended the websocket     *)
(* handlers run, and connect adds to the set and disconnect discards from  *)
(* it.  The iterator of a Python set raises RuntimeError from its next     *)
(* step when the size of the set is not the size it had when the           *)
(* iteration began; that step is outside the try of the loop body.  When   *)
(* the size is the same but the members have changed, the iterator goes    *)
(* on through the slots of the table, and which members it still meets     *)
(* depends on the slots the new members took: it may meet any member not   *)
(* met so far, or none.                                                    *)
(***************************************************************************)
MaxSockets == 3

WebSockets == 1..MaxSockets

\* The step of the for statement after `attempted` were met: the broadcast
\* as it is suspended in the next send, as it has returned, or as it has
\* raised.
NextConnection(broadcast, active_connections, attempted) ==
    LET running == [broadcast EXCEPT !.attempted = attempted]
    IN  IF Cardinality(active_connections) # broadcast.size
        THEN {[running EXCEPT !.pc = "raised"]}
        ELSE IF active_connections = broadcast.snapshot
        THEN IF broadcast.snapshot \subseteq attempted
             THEN {[running EXCEPT !.pc = "returned"]}
             ELSE {[running EXCEPT !.pc = "sending", !.connection = c] :
                      c \in broadcast.snapshot \ attempted}
        ELSE {[running EXCEPT !.pc = "returned"]}
             \cup {[running EXCEPT !.pc = "sending", !.connection = c] :
                      c \in active_connections \ attempted}

\* await manager.connect(websocket), for a websocket that is new
Connect(websocket) ==
    /\ websocket \notin manager.accepted
    /\ manager' = [manager EXCEPT !.active_connections = @ \cup {websocket},
                                  !.accepted = @ \cup {websocket}]
    /\ last' = [op |-> "connect", outcome |-> "returned", websocket |-> websocket]
    /\ UNCHANGED <<store, sessionOf, purged, tasks, process>>

\* manager.disconnect(websocket), when the handler of the websocket gets
\* WebSocketDisconnect
Disconnect(websocket) ==
    /\ websocket \in manager.active_connections
    /\ manager' = [manager EXCEPT !.active_connections = @ \ {websocket}]
    /\ last' = [op |-> "disconnect", outcome |-> "returned", websocket |-> websocket]
    /\ UNCHANGED <<store, sessionOf, purged, tasks, process>>

\* await manager.broadcast(message), up to the first send
StartBroadcast ==
    /\ manager.broadcast.pc # "sending"
    /\ \E broadcast \in NextConnection(
             [pc |-> "started", snapshot |-> manager.active_connections,
              size |-> Cardinality(manager.active_connections),
              attempted |-> {}, failed |-> {}, connection |-> 0],
             manager.active_connections, {}) :
          manager' = [manager EXCEPT !.broadcast = broadcast]
    /\ last' = [op |-> "broadcast", outcome |-> "started"]
    /\ UNCHANGED <<store, sessionOf, purged, tasks, process>>

\* The send to the connection ends, well or with an exception, which the
\* loop body catches; the loop goes to the next connection.
SendJson(raises) ==
    /\ manager.broadcast.pc = "sending"
    /\ \E broadcast \in NextConnection(
             [manager.broadcast EXCEPT
                 !.failed = IF raises THEN @ \cup {manager.broadcast.connection} ELSE @],
             manager.active_connections,
             manager.broadcast.attempted \cup {manager.broadcast.connection}) :
          /\ manager' = [manager EXCEPT !.broadcast = broadcast]
          /\ last' = [op |-> "broadcast",
                      outcome |-> IF broadcast.pc = "sending" THEN "sent"
                                  ELSE broadcast.pc]
    /\ UNCHANGED <<store, sessionOf, purged, tasks, process>>

NextBroadcast ==
    \/ \E websocket \in WebSockets : Connect(websocket)
    \/ \E websocket \in WebSockets : Disconnect(websocket)
    \/ StartBroadcast
    \/ \E raises \in BOOLEAN : SendJson(raises)

SpecBroadcast == Init /\ [][NextBroadcast]_vars

(***************************************************************************)
(* Properties of broadcast.                                                *)
(***************************************************************************)
\* C30: a broadcast does not raise, and when it has returned it has
\* attempted a send to every connection that was in active_connections
\* when it started.
C30_BroadcastIsolation ==
    /\ manager.broadcast.pc # "raised"
    /\ manager.broadcast.pc = "returned" =>
          manager.broadcast.snapshot \subseteq manager.broadcast.attempted

====
